---- MODULE Spec2Model ----
(***************************************************************************)
(* Model of src/main.py: the /collect handler (fetch three levels of       *)
(* insights, normalise them, write one snapshot document keyed by the      *)
(* minute) and the /intraday/{level} handler (diff of the two newest       *)
(* snapshots).                                                             *)
(*                                                                         *)
(* Values.  A Python float is modelled as an exact rational <<n, d>> with  *)
(* d > 0 and gcd(n, d) = 1; Python None as the empty tuple <<>>; an id or  *)
(* name that is None as the string "None".  A raw value received from the  *)
(* ads source is a record [t |-> "str", n, d] (a string spelling the       *)
(* number n/d), [t |-> "bad"] (a string float() cannot parse) or           *)
(* [t |-> "int", n |-> 0, d |-> 1] (the integer default 0 of dict.get).    *)
(* A call that may raise returns [exc |-> TRUE/FALSE, val |-> result].     *)
(* The handlers use only +, - and / on these values, and the properties    *)
(* compare results of the same operations on the same operands, so the     *)
(* rounding of binary floats plays no part.                                *)
(*                                                                         *)
(* Time is counted in ticks, TicksPerMinute of them to the minute.  ts is  *)
(* now.isoformat(), a string whose order is the order of the timestamps    *)
(* ("+00:00" sorts before ".ffffff+00:00"), so ts is modelled by the tick. *)
(*                                                                         *)
(* Each /collect request is a process: the service may run in several      *)
(* workers or instances, and the requests to the ads source and the write  *)
(* to Firestore are the points where two requests interleave.  The         *)
(* /intraday handler reads the collection once and then only computes, it  *)
(* is one step.  Firestore itself is taken to answer every read and write. *)
(***************************************************************************)
EXTENDS Integers, Sequences, FiniteSets, TLC

\* ------------------------------------------------------------------ bounds
MaxTime == 2
TicksPerMinute == 2

\* --------------------------------------------------------------- constants
ACTION_TYPE == "onsite_conversion.messaging_conversation_started_7d"
API_KEY == "change-me-in-production"
Levels == {"campaign", "adset", "ad"}
None == <<>>
NoneStr == "None"

\* ------------------------------------------------------- Python arithmetic
Abs(n) == IF n < 0 THEN -n ELSE n

RECURSIVE GCD(_, _)
GCD(a, b) == IF b = 0 THEN a ELSE GCD(b, a % b)

\* the float with value n/d (d # 0), in lowest terms
Rat(n, d) ==
    LET g == GCD(Abs(n), Abs(d))
        s == IF d < 0 THEN -1 ELSE 1
    IN  <<(s * n) \div g, (s * d) \div g>>

Zero == <<0, 1>>
ZeroDivisionError == <<"ZeroDivisionError">>

\* a - b on floats
Sub(a, b) == Rat(a[1] * b[2] - b[1] * a[2], a[2] * b[2])

\* a / k, float by integer; Python raises ZeroDivisionError when k = 0
Div(a, k) == IF k = 0 THEN ZeroDivisionError ELSE Rat(a[1], a[2] * k)

IsNegative(a) == a # None /\ a # ZeroDivisionError /\ a[1] < 0

\* float(v): the default 0 and numeric strings convert, anything else raises
PyFloat(v) ==
    IF v.t = "bad" THEN [exc |-> TRUE, val |-> Zero]
    ELSE [exc |-> FALSE, val |-> Rat(v.n, v.d)]

\* int(x) of a float: truncation towards zero
PyInt(a) == IF a[1] >= 0 THEN a[1] \div a[2] ELSE -((-a[1]) \div a[2])

\* dict.get(key, default)
Get(item, key, default) == IF key \in DOMAIN item THEN item[key] ELSE default

IntDefault == [t |-> "int", n |-> 0, d |-> 1]

\* --------------------------------------------------------- Meta API helpers
\* index of the first entry of the list whose action_type matches, 0 if none
RECURSIVE FirstMatch(_, _, _)
FirstMatch(list, action_type, i) ==
    IF i > Len(list) THEN 0
    ELSE IF Get(list[i], "action_type", NoneStr) = action_type THEN i
    ELSE FirstMatch(list, action_type, i + 1)

extract_action_value(actions, action_type) ==
    LET i == FirstMatch(actions, action_type, 1)
    IN  IF actions = <<>> \/ i = 0 THEN [exc |-> FALSE, val |-> 0]
        ELSE LET f == PyFloat(Get(actions[i], "value", IntDefault))
             IN  [exc |-> f.exc, val |-> PyInt(f.val)]

extract_cost_per_action(cost_per_action_type, action_type) ==
    LET i == FirstMatch(cost_per_action_type, action_type, 1)
    IN  IF cost_per_action_type = <<>> \/ i = 0 THEN [exc |-> FALSE, val |-> None]
        ELSE PyFloat(Get(cost_per_action_type[i], "value", IntDefault))

\* variant: the fallback guarded by conv >= 0
calculate_cpl_unguarded(spend, conv, cpa) ==
    IF cpa # None THEN cpa
    ELSE IF conv >= 0 THEN Div(spend, conv)
    ELSE None

calculate_cpl(spend, conv, cpa) ==
    IF cpa # None THEN cpa
    ELSE IF conv > 0 THEN Div(spend, conv)
    ELSE None

\* the name of the raw field holding the id / the name of a level's entity
IdField(level) == level \o "_id"
NameField(level) == level \o "_name"

\* one iteration of a "for item in ..." loop of collect: the record appended
\* to snapshot[level], or the exception raised by a conversion
NormalizeItem(item, level) ==
    LET spend == PyFloat(Get(item, "spend", IntDefault))
        conv  == extract_action_value(Get(item, "actions", <<>>), ACTION_TYPE)
        cpa   == extract_cost_per_action(Get(item, "cost_per_action_type", <<>>), ACTION_TYPE)
        cpl   == calculate_cpl(spend.val, conv.val, cpa.val)
        base  == [id    |-> Get(item, IdField(level), NoneStr),
                  name  |-> Get(item, NameField(level), ""),
                  spend |-> spend.val,
                  conv  |-> conv.val,
                  cpl   |-> cpl]
        rec   == IF level = "campaign" THEN base
                 ELSE IF level = "adset"
                 THEN base @@ [campaign_id |-> Get(item, "campaign_id", NoneStr)]
                 ELSE base @@ [campaign_id |-> Get(item, "campaign_id", NoneStr),
                               adset_id    |-> Get(item, "adset_id", NoneStr)]
    IN  [exc |-> spend.exc \/ conv.exc \/ cpa.exc, val |-> rec]

\* a whole "for item in ..." loop: the list built, or the first exception
RECURSIVE NormalizeLevel(_, _)
NormalizeLevel(items, level) ==
    IF items = <<>> THEN [exc |-> FALSE, val |-> <<>>]
    ELSE LET head == NormalizeItem(Head(items), level)
             rest == NormalizeLevel(Tail(items), level)
         IN  [exc |-> head.exc \/ rest.exc, val |-> <<head.val>> \o rest.val]

\* ------------------------------------------------- what the ads source sends
Str(n, d) == [t |-> "str", n |-> n, d |-> d]
Bad == [t |-> "bad", n |-> 0, d |-> 1]
Action(type, value) == [action_type |-> type, value |-> value]

RawCampaign(id, fields) ==
    [campaign_id |-> id, campaign_name |-> "name " \o id] @@ fields
RawAdset(id, fields) ==
    [campaign_id |-> "x", campaign_name |-> "name x",
     adset_id |-> id, adset_name |-> "name " \o id] @@ fields
RawAd(id, fields) ==
    [campaign_id |-> "x", adset_id |-> "s", ad_id |-> id, ad_name |-> "name " \o id] @@ fields

\* the "data" arrays the insights endpoint may answer with, per level
Feeds ==
    [campaign |->
       { << RawCampaign("x", [spend |-> Str(100, 1),
                              actions |-> <<Action("link_click", Str(9, 1)),
                                            Action(ACTION_TYPE, Str(5, 1))>>]) >>,
         << RawCampaign("x", [spend |-> Str(80, 1),
                              actions |-> <<Action(ACTION_TYPE, Str(3, 1))>>]) >>,
         << RawCampaign("x", [spend |-> Str(10, 1),
                              actions |-> <<Action(ACTION_TYPE, Str(1, 1))>>]),
            RawCampaign("y", [actions |-> <<Action("link_click", Str(4, 1))>>]),
            RawCampaign("x", [spend |-> Str(90, 1),
                              actions |-> <<Action(ACTION_TYPE, Str(5, 2))>>,
                              cost_per_action_type |-> <<Action(ACTION_TYPE, Str(7, 1))>>]) >>,
         << RawCampaign("x", [spend |-> Str(100, 1),
                              actions |-> <<Action(ACTION_TYPE, Str(5, 1))>>]),
            RawCampaign("y", [spend |-> Bad]) >> },
     adset |->
       { << RawAdset("s", [spend |-> Str(30, 1),
                           actions |-> <<Action(ACTION_TYPE, Str(4, 1))>>]) >> },
     ad |->
       { << RawAd("a", [spend |-> Str(5, 2),
                        actions |-> <<[action_type |-> ACTION_TYPE]>>,
                        cost_per_action_type |-> <<Action(ACTION_TYPE, Str(1, 2))>>]) >> }]

\* what requests.get / raise_for_status / response.json can produce
SourceResponses(level) ==
    {[ok |-> FALSE, json |-> <<>>]}
    \cup {[ok |-> TRUE, json |-> [data |-> f]] : f \in Feeds[level]}

Cycles == {"c1", "c2"}
Keys == {API_KEY, "wrong-key"}

\* ---------------------------------------------------------------- the state
VARIABLES
    store,        \* Firestore collection intraday_snapshots: doc_id -> document
    clock,        \* the latest time datetime.now has returned
    pc,           \* per /collect request: where the handler is
    now,          \* per /collect request: the captured timestamp
    raw,          \* per /collect request: campaigns, adsets, ads as fetched
    status,       \* per /collect request: HTTP status answered, 0 while running
    fetch_failed, \* the /collect requests whose insights request has failed
    last_writer,  \* doc_id -> the /collect request that wrote it last
    response,     \* the answer to the latest /intraday request, with the level
                  \* the handler looked at ("" when the key was refused)
    probe         \* the normalisation of one raw record, run on its own

vars == <<store, clock, pc, now, raw, status, fetch_failed, last_writer, response, probe>>

NoProbe == [item |-> <<>>, level |-> "", done |-> FALSE, exc |-> FALSE, val |-> <<>>]

\* ------------------------------------------------------------------ /collect
verify_api_key(x_api_key) == x_api_key = API_KEY

\* now.strftime("%Y%m%d_%H%M"): the timestamp truncated to the minute
DocId(t) == t \div TicksPerMinute
\* now.strftime("%Y-%m-%d")
TicksPerDay == TicksPerMinute * 1440
DateOf(t) == t \div TicksPerDay

\* variant: a failed request is logged and answered with an empty list
get_meta_insights_swallow(level, resp) ==
    IF resp.ok THEN [exc |-> FALSE, val |-> Get(resp.json, "data", <<>>)]
    ELSE [exc |-> FALSE, val |-> <<>>]

\* get_meta_insights: the list returned, or the HTTPException raised
get_meta_insights(level, resp) ==
    IF resp.ok THEN [exc |-> FALSE, val |-> Get(resp.json, "data", <<>>)]
    ELSE [exc |-> TRUE, val |-> <<>>]

\* variant: document(doc_id).create(snapshot), which leaves an existing document
Set_create_only(docs, doc_id, snapshot) ==
    [k \in DOMAIN docs \cup {doc_id} |-> IF k \in DOMAIN docs THEN docs[k] ELSE snapshot]

\* variant: the write is followed by the deletion of all older documents
Set_pruned(docs, doc_id, snapshot) ==
    [k \in {j \in DOMAIN docs \cup {doc_id} : j >= doc_id} |->
        IF k = doc_id THEN snapshot ELSE docs[k]]

\* document(doc_id).set(snapshot): create or overwrite the whole document
Set(docs, doc_id, snapshot) ==
    [k \in DOMAIN docs \cup {doc_id} |-> IF k = doc_id THEN snapshot ELSE docs[k]]

\* the snapshot dict of collect, or the exception raised while building it
BuildSnapshot(t, fetched) ==
    LET campaign == NormalizeLevel(fetched.campaign, "campaign")
        adset    == NormalizeLevel(fetched.adset, "adset")
        ad       == NormalizeLevel(fetched.ad, "ad")
    IN  [exc |-> campaign.exc \/ adset.exc \/ ad.exc,
         val |-> [ts |-> t, date |-> DateOf(t),
                  campaign |-> campaign.val, adset |-> adset.val, ad |-> ad.val]]

NoResponse == [level |-> "", status |-> 0, body |-> <<>>, snapshot_list |-> <<>>]

\* a snapshot an earlier run of the service may have left in Firestore
Yesterday == -TicksPerMinute
OldFeed ==
    [campaign |-> << RawCampaign("z", [spend |-> Str(20, 1),
                                       actions |-> <<Action(ACTION_TYPE, Str(2, 1))>>]),
                     RawCampaign("x", [spend |-> Str(60, 1),
                                       actions |-> <<Action(ACTION_TYPE, Str(6, 1))>>]) >>,
     adset |-> <<>>,
     ad |-> <<>>]
OldSnapshot == BuildSnapshot(Yesterday, OldFeed).val

Init ==
    /\ store \in {<<>>, Set(<<>>, DocId(Yesterday), OldSnapshot)}
    /\ clock = 0
    /\ pc = [c \in Cycles |-> "idle"]
    /\ now = [c \in Cycles |-> 0]
    /\ raw = [c \in Cycles |-> [campaign |-> <<>>, adset |-> <<>>, ad |-> <<>>]]
    /\ status = [c \in Cycles |-> 0]
    /\ fetch_failed = {}
    /\ last_writer = <<>>
    /\ response = NoResponse
    /\ probe = NoProbe

\* verify_api_key, then now = datetime.now(timezone.utc): some time not before
\* the times already read
collect_start(c, x_api_key) ==
    /\ pc[c] = "idle"
    /\ IF verify_api_key(x_api_key)
       THEN \E t \in clock..MaxTime :
              /\ clock' = t
              /\ now' = [now EXCEPT ![c] = t]
              /\ pc' = [pc EXCEPT ![c] = "campaign"]
              /\ UNCHANGED status
       ELSE /\ pc' = [pc EXCEPT ![c] = "done"]
            /\ status' = [status EXCEPT ![c] = 401]
            /\ UNCHANGED <<clock, now>>
    /\ UNCHANGED <<store, raw, fetch_failed, last_writer, response, probe>>

NextPc(level) ==
    IF level = "campaign" THEN "adset" ELSE IF level = "adset" THEN "ad" ELSE "process"

\* campaigns / adsets / ads = get_meta_insights(level)
collect_fetch(c, level, resp) ==
    /\ pc[c] = level
    /\ LET r == get_meta_insights(level, resp)
       IN  IF r.exc
           THEN /\ pc' = [pc EXCEPT ![c] = "done"]
                /\ status' = [status EXCEPT ![c] = 500]
                /\ UNCHANGED raw
           ELSE /\ pc' = [pc EXCEPT ![c] = NextPc(level)]
                /\ raw' = [raw EXCEPT ![c][level] = r.val]
                /\ UNCHANGED status
    /\ fetch_failed' = IF resp.ok THEN fetch_failed ELSE fetch_failed \cup {c}
    /\ UNCHANGED <<store, clock, now, last_writer, response, probe>>

\* the three normalisation loops and the Firestore write
collect_save(c) ==
    /\ pc[c] = "process"
    /\ LET snapshot == BuildSnapshot(now[c], raw[c])
       IN  IF snapshot.exc
           THEN /\ status' = [status EXCEPT ![c] = 500]
                /\ UNCHANGED <<store, last_writer>>
           ELSE /\ store' = Set(store, DocId(now[c]), snapshot.val)
                /\ last_writer' = [k \in DOMAIN last_writer \cup {DocId(now[c])} |->
                                      IF k = DocId(now[c]) THEN c ELSE last_writer[k]]
                /\ status' = [status EXCEPT ![c] = 200]
    /\ pc' = [pc EXCEPT ![c] = "done"]
    /\ UNCHANGED <<clock, now, raw, fetch_failed, response, probe>>

\* ---------------------------------------------------------- /intraday/{level}
RequestLevels == {"campaign", "adset", "ad", "account"}

\* the document with the greatest ts among docs (a non-empty set)
Newest(docs) == CHOOSE d \in docs : \A e \in docs : e.ts <= d.ts

\* order_by("ts", DESCENDING).limit(2).stream()
RecentSnapshots(docs_by_id) ==
    LET docs == {docs_by_id[k] : k \in DOMAIN docs_by_id}
    IN  IF docs = {} THEN <<>>
        ELSE LET first == Newest(docs)
                 rest  == docs \ {first}
             IN  IF rest = {} THEN <<first>> ELSE <<first, Newest(rest)>>

\* {item["id"]: item for item in items}: the keys, in order of first insertion
RECURSIVE IndexKeys(_)
IndexKeys(items) ==
    IF items = <<>> THEN <<>>
    ELSE LET init == IndexKeys(SubSeq(items, 1, Len(items) - 1))
             id   == items[Len(items)].id
         IN  IF \E i \in 1..Len(init) : init[i] = id THEN init ELSE Append(init, id)

\* variant: the first item with the id is kept
IndexValue_first(items, id) ==
    items[CHOOSE i \in 1..Len(items) :
            /\ items[i].id = id
            /\ \A j \in 1..(i - 1) : items[j].id # id]

\* {item["id"]: item for item in items}[id]: the last item inserted under id
IndexValue(items, id) ==
    items[CHOOSE i \in 1..Len(items) :
            /\ items[i].id = id
            /\ \A j \in (i + 1)..Len(items) : items[j].id # id]

HasKey(items, id) == \E i \in 1..Len(items) : items[i].id = id

ZeroItem == [spend |-> Zero, conv |-> 0]

\* variant: differences floored at zero
DeltaItem_clamped(curr, prev) ==
    LET d         == Sub(curr.spend, prev.spend)
        spend_30m == IF d[1] < 0 THEN Zero ELSE d
        c         == curr.conv - prev.conv
        conv_30m  == IF c < 0 THEN 0 ELSE c
        cpl_30m   == IF conv_30m > 0 THEN Div(spend_30m, conv_30m) ELSE None
    IN  [id          |-> curr.id,
         name        |-> curr.name,
         campaign_id |-> Get(curr, "campaign_id", NoneStr),
         adset_id    |-> Get(curr, "adset_id", NoneStr),
         spend_today |-> curr.spend,
         conv_today  |-> curr.conv,
         cpl_today   |-> curr.cpl,
         spend_30m   |-> spend_30m,
         conv_30m    |-> conv_30m,
         cpl_30m     |-> cpl_30m]

\* one iteration of the loop over current_items
DeltaItem(curr, prev) ==
    LET spend_30m == Sub(curr.spend, prev.spend)
        conv_30m  == curr.conv - prev.conv
        cpl_30m   == IF conv_30m > 0 THEN Div(spend_30m, conv_30m) ELSE None
    IN  [id          |-> curr.id,
         name        |-> curr.name,
         campaign_id |-> Get(curr, "campaign_id", NoneStr),
         adset_id    |-> Get(curr, "adset_id", NoneStr),
         spend_today |-> curr.spend,
         conv_today  |-> curr.conv,
         cpl_today   |-> curr.cpl,
         spend_30m   |-> spend_30m,
         conv_30m    |-> conv_30m,
         cpl_30m     |-> cpl_30m]

\* variant: previous = snapshot_list[-1], the newest snapshot when it is alone
IntradayResult_previous_is_last(snapshot_list, level) ==
    LET current_list  == Get(snapshot_list[1], level, <<>>)
        previous_list == Get(snapshot_list[Len(snapshot_list)], level, <<>>)
        keys == IndexKeys(current_list)
    IN  [i \in 1..Len(keys) |->
           DeltaItem(IndexValue(current_list, keys[i]),
                     IF HasKey(previous_list, keys[i])
                     THEN IndexValue(previous_list, keys[i]) ELSE ZeroItem)]

\* the result list built from the snapshots read
IntradayResult(snapshot_list, level) ==
    LET current_list  == Get(snapshot_list[1], level, <<>>)
        previous_list == IF Len(snapshot_list) > 1
                         THEN Get(snapshot_list[2], level, <<>>) ELSE <<>>
        keys == IndexKeys(current_list)
    IN  [i \in 1..Len(keys) |->
           DeltaItem(IndexValue(current_list, keys[i]),
                     IF HasKey(previous_list, keys[i])
                     THEN IndexValue(previous_list, keys[i]) ELSE ZeroItem)]

\* variant: no test for an empty snapshot_list, snapshot_list[0] raises
IntradayResponse_no_empty_check(level, x_api_key, docs_by_id) ==
    IF ~verify_api_key(x_api_key)
    THEN [level |-> "", status |-> 401, body |-> <<>>, snapshot_list |-> <<>>]
    ELSE IF level \notin Levels
    THEN [level |-> level, status |-> 400, body |-> <<>>, snapshot_list |-> <<>>]
    ELSE LET snapshot_list == RecentSnapshots(docs_by_id)
         IN  IF Len(snapshot_list) = 0
             THEN [level |-> level, status |-> 500, body |-> <<>>, snapshot_list |-> <<>>]
             ELSE [level |-> level, status |-> 200,
                   body |-> IntradayResult(snapshot_list, level),
                   snapshot_list |-> snapshot_list]

\* the handler's answer, given what the query on the collection returns
IntradayResponse(level, x_api_key, docs_by_id) ==
    IF ~verify_api_key(x_api_key)
    THEN [level |-> "", status |-> 401, body |-> <<>>, snapshot_list |-> <<>>]
    ELSE IF level \notin Levels
    THEN [level |-> level, status |-> 400, body |-> <<>>, snapshot_list |-> <<>>]
    ELSE LET snapshot_list == RecentSnapshots(docs_by_id)
         IN  [level |-> level, status |-> 200,
              body |-> IF Len(snapshot_list) = 0 THEN <<>>
                       ELSE IntradayResult(snapshot_list, level),
              snapshot_list |-> snapshot_list]

get_intraday(level, x_api_key) ==
    /\ response' = IntradayResponse(level, x_api_key, store)
    /\ UNCHANGED <<store, clock, pc, now, raw, status, fetch_failed, last_writer, probe>>

\* ------------------------------------------------------------ specification
Next ==
    \/ \E c \in Cycles, k \in Keys : collect_start(c, k)
    \/ \E c \in Cycles, level \in Levels :
         \E resp \in SourceResponses(level) : collect_fetch(c, level, resp)
    \/ \E c \in Cycles : collect_save(c)
    \/ \E level \in RequestLevels, k \in Keys : get_intraday(level, k)

Spec == Init /\ [][Next]_vars

\* ------------------------------------------- the normaliser, run on its own
Part(key, values) == {<<>>} \cup {[k \in {key} |-> v] : v \in values}

ProbeValues == {Str(0, 1), Str(3, 1), Str(-3, 1), Str(5, 2), Bad}
ProbeLists ==
    {<<>>, <<Action("link_click", Str(3, 1))>>, <<[action_type |-> ACTION_TYPE]>>}
    \cup {<<Action(ACTION_TYPE, v)>> : v \in ProbeValues}
    \cup {<<Action("link_click", Str(9, 1)), Action(ACTION_TYPE, Str(2, 1)),
            Action(ACTION_TYPE, v)>> : v \in {Str(7, 1), Bad}}

ProbeItems ==
    {RawCampaign("x", s @@ a @@ c) :
        s \in Part("spend", ProbeValues \ {Str(5, 2)}),
        a \in Part("actions", ProbeLists),
        c \in Part("cost_per_action_type", ProbeLists)}

InitNormalize ==
    /\ store = <<>>
    /\ clock = 0
    /\ pc = [c \in Cycles |-> "idle"]
    /\ now = [c \in Cycles |-> 0]
    /\ raw = [c \in Cycles |-> [campaign |-> <<>>, adset |-> <<>>, ad |-> <<>>]]
    /\ status = [c \in Cycles |-> 0]
    /\ fetch_failed = {}
    /\ last_writer = <<>>
    /\ response = NoResponse
    /\ \E item \in ProbeItems : probe = [NoProbe EXCEPT !.item = item, !.level = "campaign"]

normalize ==
    /\ ~probe.done
    /\ LET r == NormalizeItem(probe.item, probe.level)
       IN  probe' = [probe EXCEPT !.done = TRUE, !.exc = r.exc, !.val = r.val]
    /\ UNCHANGED <<store, clock, pc, now, raw, status, fetch_failed, last_writer, response>>

NextNormalize == normalize

SpecNormalize == InitNormalize /\ [][NextNormalize]_vars

\* ================================================================== claims
ValueOk(a) == a # None /\ a # ZeroDivisionError
\* the float a has the value n/d
RatEq(a, n, d) == ValueOk(a) /\ a[1] * d = n * a[2]

Docs == {store[k] : k \in DOMAIN store}
IsNewest(d) == d \in Docs /\ \A e \in Docs \ {d} : e.ts < d.ts
IsSecondNewest(p, d) == p \in Docs \ {d} /\ \A e \in Docs \ {d, p} : e.ts < p.ts

Occurs(list, id) == \E i \in 1..Len(list) : list[i].id = id
LastIndex(list, id) ==
    CHOOSE i \in 1..Len(list) :
        list[i].id = id /\ \A j \in 1..Len(list) : list[j].id = id => j <= i
LastOf(list, id) == list[LastIndex(list, id)]

\* the entry of a result list for id (there is one)
Entry(body, id) == body[CHOOSE j \in 1..Len(body) : body[j].id = id]

\* the step is an authorised /intraday/{level} request being answered
Answers(level) ==
    /\ response'.level = level
    /\ response'.status # 401
    /\ store' = store
    /\ pc' = pc
    /\ get_intraday(level, API_KEY)

\* C1: with two or more snapshots stored, for every id of the newest
\* snapshot's level the answer of get_intraday has spend_30m = current spend -
\* previous spend and conv_30m = current conv - previous conv (previous taken
\* as 0 when the id is absent from the second-newest snapshot), negative
\* differences included, and cpl_30m = spend_30m / conv_30m when conv_30m > 0
\* and None otherwise.
C1_DeltaOf(cur, prv, level, body) ==
    \A i \in 1..Len(cur[level]) :
        LET id == cur[level][i].id
            c  == LastOf(cur[level], id)
            ps == IF Occurs(prv[level], id) THEN LastOf(prv[level], id).spend ELSE <<0, 1>>
            pc0 == IF Occurs(prv[level], id) THEN LastOf(prv[level], id).conv ELSE 0
            sn == c.spend[1] * ps[2] - ps[1] * c.spend[2]
            sd == c.spend[2] * ps[2]
            cw == c.conv - pc0
        IN  /\ Occurs(body, id)
            /\ RatEq(Entry(body, id).spend_30m, sn, sd)
            /\ Entry(body, id).conv_30m = cw
            /\ IF cw > 0 THEN RatEq(Entry(body, id).cpl_30m, sn, sd * cw)
               ELSE Entry(body, id).cpl_30m = None

C1_WindowDeltas ==
    [][\A level \in Levels :
         Answers(level) =>
           \A cur \in Docs, prv \in Docs :
             IsNewest(cur) /\ IsSecondNewest(prv, cur) =>
               /\ response'.status = 200
               /\ C1_DeltaOf(cur, prv, level, response'.body)]_vars

\* a /intraday answer computed from two snapshots that holds a negative spend
\* window with a null cost, and a positive conversions window with a cost
C1_Witness ==
    /\ response.status = 200
    /\ Len(response.snapshot_list) = 2
    /\ \E j \in 1..Len(response.body) :
         /\ response.body[j].spend_30m[1] < 0
         /\ response.body[j].cpl_30m = None
    /\ Cardinality(DOMAIN store) = 3

\* the raw record the stored record number i of document k's level came from
SourceItem(k, level, i) ==
    IF k \in DOMAIN last_writer THEN raw[last_writer[k]][level][i] ELSE OldFeed[level][i]

\* the source sent a cost-per-action entry for the target action type
CostReported(item) ==
    LET list == Get(item, "cost_per_action_type", <<>>)
    IN  \E i \in 1..Len(list) : Get(list[i], "action_type", NoneStr) = ACTION_TYPE

\* the answer has exactly one record for each distinct id of the list
OnePerEntity(body, list) ==
    /\ \A i \in 1..Len(list) :
         Cardinality({j \in 1..Len(body) : body[j].id = list[i].id}) = 1
    /\ \A j \in 1..Len(body) : Occurs(list, body[j].id)

\* C2 as stated: with exactly one snapshot stored, get_intraday answers one
\* record per entity of the level and in each record spend_30m = spend_today,
\* conv_30m = conv_today and cpl_30m = cpl_today.
C2_WindowEqualsCumulative ==
    [][\A level \in Levels :
         (Answers(level) /\ Cardinality(DOMAIN store) = 1) =>
           \A k \in DOMAIN store :
             LET body == response'.body
             IN  /\ response'.status = 200
                 /\ OnePerEntity(body, store[k][level])
                 /\ \A j \in 1..Len(body) :
                      /\ body[j].spend_30m = body[j].spend_today
                      /\ body[j].conv_30m = body[j].conv_today
                      /\ body[j].cpl_30m = body[j].cpl_today]_vars

\* C2 amended: with exactly one snapshot stored, get_intraday answers one
\* record per entity of the level with spend_30m = spend_today, conv_30m =
\* conv_today and cpl_30m = spend_today / conv_today when conv_today > 0 and
\* None otherwise; cpl_30m = cpl_today for every record for which the source
\* reported no cost-per-action entry of the target action type.
C2_WindowEqualsCumulativeUnlessReported ==
    [][\A level \in Levels :
         (Answers(level) /\ Cardinality(DOMAIN store) = 1) =>
           \A k \in DOMAIN store :
             LET body == response'.body
                 list == store[k][level]
             IN  /\ response'.status = 200
                 /\ OnePerEntity(body, list)
                 /\ \A j \in 1..Len(body) :
                      /\ body[j].spend_30m = body[j].spend_today
                      /\ body[j].conv_30m = body[j].conv_today
                      /\ IF body[j].conv_today > 0
                         THEN RatEq(body[j].cpl_30m, body[j].spend_today[1],
                                    body[j].spend_today[2] * body[j].conv_today)
                         ELSE body[j].cpl_30m = None
                      /\ ~CostReported(SourceItem(k, level, LastIndex(list, body[j].id)))
                           => body[j].cpl_30m = body[j].cpl_today]_vars

\* a /intraday answer computed from the only snapshot stored, with a record
\* whose cumulative cost is the source-reported one and differs from the
\* window cost, and a record with a computed cost
C2_Witness ==
    /\ Cardinality(DOMAIN store) = 1
    /\ response.status = 200
    /\ \E k \in DOMAIN store : response.snapshot_list = <<store[k]>>
    /\ \E j \in 1..Len(response.body) :
         /\ response.body[j].cpl_today # response.body[j].cpl_30m
         /\ response.body[j].spend_30m = response.body[j].spend_today
         /\ response.body[j].spend_today # Zero

\* C3 as stated: a collect cycle whose three fetches succeeded never fails:
\* unparsable or absent values count as 0, the cycle answers 200 and its
\* snapshot is in the store.
C3_NormalizationNeverFails ==
    \A c \in Cycles :
        (pc[c] = "done" /\ status[c] # 401 /\ c \notin fetch_failed) =>
            /\ status[c] = 200
            /\ DocId(now[c]) \in DOMAIN store

\* C4: a cycle one of whose fetches failed ends with an error and has written
\* nothing, the step in which the fetch fails leaves the store as it is, and
\* every stored snapshot holds the three levels built from the three lists one
\* single cycle fetched.
WrittenBy(k) == {c \in Cycles : k \in DOMAIN last_writer /\ last_writer[k] = c}

C4_Complete(k) ==
    \/ store[k] = OldSnapshot
    \/ \E c \in WrittenBy(k) :
         /\ c \notin fetch_failed
         /\ store[k].ts = now[c]
         /\ \A level \in Levels :
              /\ level \in DOMAIN store[k]
              /\ Len(store[k][level]) = Len(raw[c][level])
              /\ \A i \in 1..Len(raw[c][level]) :
                   store[k][level][i].id = raw[c][level][i][IdField(level)]
              /\ raw[c][level] \in Feeds[level]

C4_FailFast ==
    /\ [](\A c \in fetch_failed :
            /\ pc[c] = "done"
            /\ status[c] = 500
            /\ \A k \in DOMAIN last_writer : last_writer[k] # c)
    /\ [](\A k \in DOMAIN store : C4_Complete(k))
    /\ [][fetch_failed' # fetch_failed => store' = store]_vars

\* a cycle that failed on a later level, after the other cycle has written
C4_Witness ==
    \E c \in fetch_failed :
        /\ pc[c] = "done"
        /\ raw[c].adset # <<>>
        /\ \E k \in DOMAIN last_writer : last_writer[k] # c

\* C5 as stated: within each level of every stored snapshot the ids are
\* pairwise distinct.
C5_UniqueIds ==
    \A k \in DOMAIN store : \A level \in Levels :
        \A i \in 1..Len(store[k][level]) : \A j \in 1..Len(store[k][level]) :
            i # j => store[k][level][i].id # store[k][level][j].id

\* C6 as stated: every document once in the store stays in it unchanged.
C6_Immutable ==
    [][\A k \in DOMAIN store : k \in DOMAIN store' /\ store'[k] = store[k]]_vars

\* C6 amended: no document is ever deleted, a step that answers an /intraday
\* request leaves the store as it is, and a stored document changes only in
\* the write of a collect cycle that derived the same minute-truncated id,
\* which replaces it by that cycle's snapshot.
C6_ImmutableUnlessSameMinute ==
    [][/\ \A k \in DOMAIN store :
            /\ k \in DOMAIN store'
            /\ store'[k] # store[k] =>
                 \E c \in Cycles :
                    /\ pc[c] = "process" /\ pc'[c] = "done" /\ status'[c] = 200
                    /\ DocId(now[c]) = k
                    /\ store'[k].ts = now[c]
       /\ response' # response => store' = store]_vars

\* both cycles have written under the same id at different times, the older
\* document of another minute is still there, and /intraday has been answered
C6_Witness ==
    /\ status["c1"] = 200 /\ status["c2"] = 200
    /\ DocId(now["c1"]) = DocId(now["c2"])
    /\ now["c1"] # now["c2"]
    /\ DocId(Yesterday) \in DOMAIN store
    /\ store[DocId(Yesterday)] = OldSnapshot
    /\ response.status = 200
    /\ Len(response.snapshot_list) = 2

\* C8: with no snapshot stored, get_intraday for a valid level answers 200
\* with an empty list.
C8_EmptyStore ==
    [][\A level \in Levels :
         (Answers(level) /\ DOMAIN store = {}) =>
            /\ response'.status = 200
            /\ response'.body = <<>>]_vars

\* /intraday answered while the store is empty
C8_Witness ==
    /\ DOMAIN store = {}
    /\ response.level \in Levels
    /\ response.status = 200
    /\ response.body = <<>>

\* C9: when both cycles have written and derived the same minute-truncated
\* id, the store holds one single snapshot of that minute, under that id, and
\* it is the snapshot of the cycle that wrote last.
C9_LastWriteWins ==
    \A c1 \in Cycles, c2 \in Cycles :
        (c1 # c2 /\ status[c1] = 200 /\ status[c2] = 200
         /\ DocId(now[c1]) = DocId(now[c2])) =>
            LET k == DocId(now[c1])
            IN  /\ k \in DOMAIN store
                /\ last_writer[k] \in {c1, c2}
                /\ store[k] = BuildSnapshot(now[last_writer[k]], raw[last_writer[k]]).val
                /\ Cardinality({j \in DOMAIN store : DocId(store[j].ts) = k}) = 1

\* two overlapping cycles with different content have written under one id
C9_Witness ==
    /\ status["c1"] = 200 /\ status["c2"] = 200
    /\ DocId(now["c1"]) = DocId(now["c2"])
    /\ now["c1"] < now["c2"]
    /\ raw["c1"] # raw["c2"]
    /\ last_writer[DocId(now["c1"])] = "c1"

\* C10: the answer of get_intraday holds exactly one record for each distinct
\* id of the newest snapshot's level and no other; its cumulative fields are
\* those of the last record with that id in the newest snapshot, and its
\* window fields are computed against the last record with that id in the
\* second-newest snapshot.
C10_OneRecordPerCurrentId ==
    [][\A level \in Levels :
         Answers(level) =>
           \A cur \in Docs :
             IsNewest(cur) =>
               LET body == response'.body
               IN  /\ OnePerEntity(body, cur[level])
                   /\ \A j \in 1..Len(body) :
                        LET c == LastOf(cur[level], body[j].id)
                        IN  /\ body[j].name = c.name
                            /\ body[j].spend_today = c.spend
                            /\ body[j].conv_today = c.conv
                            /\ body[j].cpl_today = c.cpl
                            /\ \A prv \in Docs :
                                 (IsSecondNewest(prv, cur) /\ Occurs(prv[level], body[j].id)) =>
                                    LET p == LastOf(prv[level], body[j].id)
                                    IN  /\ body[j].conv_30m = c.conv - p.conv
                                        /\ RatEq(body[j].spend_30m,
                                                 c.spend[1] * p.spend[2] - p.spend[1] * c.spend[2],
                                                 c.spend[2] * p.spend[2])]_vars

\* an answer computed from a newest snapshot that repeats an id and a
\* second-newest snapshot that holds an id the newest one lacks
C10_Witness ==
    /\ response.status = 200
    /\ Len(response.snapshot_list) = 2
    /\ LET cur == response.snapshot_list[1][response.level]
           prv == response.snapshot_list[2][response.level]
       IN  /\ Len(response.body) < Len(cur)
           /\ \E i \in 1..Len(prv) : ~Occurs(response.body, prv[i].id)
           /\ \E i \in 1..Len(prv) : Occurs(response.body, prv[i].id)

\* ---- the normaliser on its own
\* the value the source reported as cost of the target action type: that of
\* the first matching entry, 0 when the entry has no value
ReportedCost(item) ==
    LET list == item.cost_per_action_type
        i == CHOOSE m \in 1..Len(list) :
                /\ Get(list[m], "action_type", NoneStr) = ACTION_TYPE
                /\ \A j \in 1..(m - 1) : Get(list[j], "action_type", NoneStr) # ACTION_TYPE
    IN  Get(list[i], "value", IntDefault)

C7_CostRule(item, rec) ==
    /\ ~IsNegative(rec.cpl)
    /\ rec.cpl # ZeroDivisionError
    /\ rec.cpl = None <=> (rec.conv = 0 /\ ~CostReported(item))
    /\ CostReported(item) => RatEq(rec.cpl, ReportedCost(item).n, ReportedCost(item).d)
    /\ (~CostReported(item) /\ rec.conv > 0) =>
          RatEq(rec.cpl, rec.spend[1], rec.spend[2] * rec.conv)

\* C7 as stated: a normalised record with spend >= 0 and conv >= 0 has a cpl
\* that is never negative, is None exactly when conv = 0 and no cost was
\* reported, is the reported cost when there is one and spend / conv otherwise.
C7_CostNeverNegative ==
    (probe.done /\ ~probe.exc /\ probe.val.spend[1] >= 0 /\ probe.val.conv >= 0) =>
        C7_CostRule(probe.item, probe.val)

\* C7 amended: the same, for records whose source-reported cost, if any, is
\* not negative.
C7_CostNeverNegativeForValidCost ==
    (probe.done /\ ~probe.exc /\ probe.val.spend[1] >= 0 /\ probe.val.conv >= 0
     /\ (CostReported(probe.item) => ReportedCost(probe.item).n >= 0)) =>
        C7_CostRule(probe.item, probe.val)

\* a record normalised with a positive spend, no conversion and no reported cost
C7_Witness ==
    /\ probe.done /\ ~probe.exc
    /\ probe.val.spend[1] > 0
    /\ probe.val.conv = 0
    /\ ~CostReported(probe.item)
    /\ probe.val.cpl = None

====
